---- MODULE Spec2Model ----
(***************************************************************************)
(* Model of legal_tools/git_utils.py: the branch reconciler                *)
(* (setup_local_branch), kill_branch and the publisher                     *)
(* (commit_and_push_changes), over an abstract git repository.             *)
(*                                                                         *)
(* The repository is a record of local heads, their tracking               *)
(* configuration, the checked-out branch, the remote-tracking references   *)
(* of "origin", the index and the working tree.  The                       *)
(* remote itself is the environment: what a fetch brings and whether a     *)
(* push is accepted are inputs of the calls.  setup_to_call_git works on   *)
(* the process environment, a map from the variables set to their values.  *)
(*                                                                         *)
(* A commit is identified by its content, as in git: it is the sequence    *)
(* of the trees of its history, root first.                                *)
(*                                                                         *)
(* Names and paths are sequences of tokens, so that prefix stripping and   *)
(* startswith are computed rather than assumed.                            *)
(***************************************************************************)
EXTENDS Integers, Sequences, FiniteSets, TLC

VARIABLES
    heads,      \* local head name -> commit, NoCommit when the head is absent
    tracking,   \* local head name -> full name of the tracked remote reference, NoBranch when none
    HEAD,       \* name of the checked-out local branch
    refs,       \* remote-tracking reference full name -> commit, NoCommit when absent
    index,      \* path -> staged content
    wt,         \* path -> working tree content
    env,        \* os.environ: the variables that are set -> their value
    last        \* the last call: operation, branch argument, outcome, the git
                \* steps it ran, the branch checked out before it, and whether
                \* it repeated a successful reconciliation with nothing fetched

vars == <<heads, tracking, HEAD, refs, index, wt, env, last>>

-----------------------------------------------------------------------------
(* Bounds and vocabulary *)

\* Commits other than the initial ones that the repository may hold at once
MaxNewCommits == 1

NoCommit == <<>>
NoBranch == <<>>

MAIN == <<"main">>
OFFICIAL_GIT_BRANCH == <<"main">>
B1 == <<"b1">>
Names == {MAIN, B1}

ORIGIN == <<"origin">>
FullName(remote, name) == remote \o <<"/">> \o name
RemoteRefs == {FullName(ORIGIN, n) : n \in Names}

PathAX == <<"a", "/", "x">>
PathBY == <<"b", "/", "y">>
Paths == {PathAX, PathBY}
RelPaths == {<<"a", "/">>, <<"b", "/">>, <<>>}

\* File contents; None is a missing file.  a/x has two versions, b/y one.
None == "none"
Content(p) == IF p = PathAX THEN {"v1", "v2"} ELSE {"v1"}

EmptyTree == [p \in Paths |-> None]
RootCommit == <<EmptyTree>>
SecondCommit == <<EmptyTree, [EmptyTree EXCEPT ![PathAX] = "v1"]>>
InitialCommits == {RootCommit, SecondCommit}

\* Environment variables: the three setup_to_call_git provides, and one it
\* has nothing to do with
GIT_SSH == "GIT_SSH"
TRANSLATION_REPOSITORY_DEPLOY_KEY == "TRANSLATION_REPOSITORY_DEPLOY_KEY"
PROJECT_ROOT == "PROJECT_ROOT"
LANG == "LANG"
EnvNames == {GIT_SSH, TRANSLATION_REPOSITORY_DEPLOY_KEY, PROJECT_ROOT, LANG}

\* The values of the Django settings
SETTINGS_PROJECT_ROOT == <<"/", "srv", "/", "app">>
SETTINGS_TRANSLATION_REPOSITORY_DEPLOY_KEY == <<"/", "srv", "/", "key">>

\* Values a variable may have been given by someone else; the empty string
\* is a value
PresetValues == {<<>>, <<"/", "preset">>}

-----------------------------------------------------------------------------
(* Strings *)

\* os.path.join(a, b) for a relative b
PathJoin(a, b) ==
    IF a = <<>> \/ a[Len(a)] = "/" THEN a \o b ELSE a \o <<"/">> \o b

StartsWith(s, prefix) ==
    /\ Len(prefix) <= Len(s)
    /\ SubSeq(s, 1, Len(prefix)) = prefix

Contains(s, sub) ==
    \E i \in 0..(Len(s) - Len(sub)) : SubSeq(s, i + 1, i + Len(sub)) = sub

PROTOCOL_ERROR == <<"protocol", "error">>

FetchErrors ==
    { <<"fatal", "protocol", "error", "bad", "line">>,
      <<"fatal", "unable", "to", "access">>,
      <<"error", "in", "protocol">> }

-----------------------------------------------------------------------------
(* The repository as a value *)

Repo ==
    [heads |-> heads, tracking |-> tracking, HEAD |-> HEAD, refs |-> refs,
     index |-> index, wt |-> wt]

Tree(c) == c[Len(c)]
Parent(c) == SubSeq(c, 1, Len(c) - 1)

Result(r, out, log) == [repo |-> r, out |-> out, log |-> log]

-----------------------------------------------------------------------------
(* git and GitPython primitives used by the module *)

\* origin.fetch(): every branch the remote advertises overwrites its
\* remote-tracking reference; references of branches the remote no longer
\* has are kept (no pruning).  fetched[f] = NoCommit: nothing advertised for f.
Fetch(r, fetched) ==
    [r EXCEPT !.refs = [f \in RemoteRefs |->
        IF fetched[f] # NoCommit THEN fetched[f] ELSE r.refs[f]]]

\* Working tree after the index and working tree are forced to the tree of
\* commit c: tracked paths and paths of c take c's content, a path that is
\* untracked and not in c is left alone.
ForcedWorkTree(r, c) ==
    [p \in Paths |->
        IF r.index[p] # None \/ Tree(c)[p] # None
        THEN Tree(c)[p]
        ELSE r.wt[p]]

\* repo.head.reset(commit, index=True, working_tree=True): git reset --hard
ResetHard(r, c) ==
    [r EXCEPT !.heads[r.HEAD] = c,
              !.index = Tree(c),
              !.wt = ForcedWorkTree(r, c)]

\* branch.checkout(force=True): git checkout -f <name>
CheckoutForce(r, name) ==
    [r EXCEPT !.HEAD = name,
              !.index = Tree(r.heads[name]),
              !.wt = ForcedWorkTree(r, r.heads[name])]

\* git checkout <name> without force refuses when a path that differs between
\* the current and the target commit carries a local change or is an
\* untracked file in the way.
CheckoutBlocked(r, name) ==
    LET cur == Tree(r.heads[r.HEAD])
        tgt == Tree(r.heads[name])
    IN  \E p \in Paths :
            /\ cur[p] # tgt[p]
            /\ r.index[p] # tgt[p]
            /\ ~ ( /\ r.index[p] = cur[p]
                   /\ \/ r.wt[p] = r.index[p]
                      \/ (r.index[p] # None /\ r.wt[p] = None) )

\* branch.checkout(): the repository after a successful git checkout <name>;
\* paths equal in both commits, or already staged as in the target, keep
\* their local state.
Checkout(r, name) ==
    LET cur == Tree(r.heads[r.HEAD])
        tgt == Tree(r.heads[name])
        keep(p) == cur[p] = tgt[p] \/ r.index[p] = tgt[p]
    IN  [r EXCEPT !.HEAD = name,
                  !.index = [p \in Paths |-> IF keep(p) THEN r.index[p] ELSE tgt[p]],
                  !.wt = [p \in Paths |-> IF keep(p) THEN r.wt[p] ELSE tgt[p]]]

\* Mutant: as git branch <name> <remote-tracking ref> does, the new head is
\* set to track a remote-tracking reference it was created from.
CreateHeadAutoTrack(r, name, c) ==
    LET from == {f \in RemoteRefs : r.refs[f] # NoCommit /\ r.refs[f] = c}
    IN  IF from = {}
        THEN [r EXCEPT !.heads[name] = c]
        ELSE [r EXCEPT !.heads[name] = c, !.tracking[name] = CHOOSE f \in from : TRUE]

\* repo.create_head(name, ref): writes the head at the commit of ref; no
\* tracking configuration is written.
CreateHead(r, name, c) == [r EXCEPT !.heads[name] = c]

\* branch.set_tracking_branch(ref)
SetTrackingBranch(r, name, upstream) == [r EXCEPT !.tracking[name] = upstream]

\* branch.tracking_branch(): truthy when the head has a tracking configuration
TrackingBranch(r, name) == r.tracking[name] # NoBranch

\* repo.delete_head(name, force=True): git branch -D <name>, which also drops
\* the branch's configuration section.
DeleteHead(r, name) ==
    [r EXCEPT !.heads[name] = NoCommit, !.tracking[name] = NoBranch]

-----------------------------------------------------------------------------
(* Branch Locator *)

\* Full names of the remote-tracking references that exist: remote.refs
RemoteRefNames(r) == {f \in RemoteRefs : r.refs[f] # NoCommit}

\* name[prefix_length:] with prefix_length = len(remote.name) + 1
StripRemote(remote, full_name) ==
    SubSeq(full_name, Len(remote) + 1 + 1, Len(full_name))

remote_branch_names(r, remote) ==
    {StripRemote(remote, f) : f \in RemoteRefNames(r)}

\* get_branch on a remote: the reference whose stripped name is name, or
\* NoBranch (Python's None) when the loop finds none.
get_branch_remote(r, remote, name) ==
    LET found == {f \in RemoteRefNames(r) : StripRemote(remote, f) = name}
    IN  IF found = {} THEN NoBranch ELSE CHOOSE f \in found : TRUE

branch_exists_remote(r, remote, name) == name \in remote_branch_names(r, remote)

branch_exists_local(r, name) == r.heads[name] # NoCommit

\* What a lookup gives its caller: it returns branch (NoBranch is None), or
\* it raises.
Lookup(out, branch) == [out |-> out, branch |-> branch]

\* getattr(repo.heads, name): the head of that name, AttributeError when
\* there is none
get_branch_local(r, name) ==
    IF r.heads[name] # NoCommit
    THEN Lookup("ok", name)
    ELSE Lookup("raise", NoBranch)

\* The targets of a lookup: the repository itself, or its remote
REPO == <<"repo">>
Targets == {REPO, ORIGIN}

get_branch(r, target, name) ==
    IF target = ORIGIN
    THEN Lookup("ok", get_branch_remote(r, ORIGIN, name))
    ELSE get_branch_local(r, name)

branch_exists(r, target, name) ==
    IF target = ORIGIN
    THEN branch_exists_remote(r, ORIGIN, name)
    ELSE branch_exists_local(r, name)

-----------------------------------------------------------------------------
(* kill_branch *)

\* Mutant: the head is deleted without checking "main" out first.
kill_branch_no_checkout(r, name) ==
    IF ~branch_exists_local(r, name) \/ name = r.HEAD
    THEN Result(r, "raise", <<"delete_head">>)
    ELSE Result(DeleteHead(r, name), "ok", <<"delete_head">>)

kill_branch(r, name) ==
    IF ~branch_exists_local(r, MAIN)
    THEN Result(r, "raise", <<>>)
    ELSE IF CheckoutBlocked(r, MAIN)
    THEN Result(r, "raise", <<"checkout">>)
    ELSE LET r1 == Checkout(r, MAIN)
         IN  IF ~branch_exists_local(r1, name) \/ name = r1.HEAD
             THEN Result(r1, "raise", <<"checkout", "delete_head">>)
             ELSE Result(DeleteHead(r1, name), "ok", <<"checkout", "delete_head">>)

-----------------------------------------------------------------------------
(* setup_local_branch *)

\* Mutant: any mention of the protocol counts as a protocol error.
IsProtocolErrorLoose(stderr) == Contains(stderr, <<"protocol">>)

\* "protocol error" in e.stderr
IsProtocolError(stderr) == Contains(stderr, PROTOCOL_ERROR)

\* Mutant: the head is created from origin's branch but never set to track it.
SetupFromRemoteUntracked(r, branch_name, log) ==
    LET ref == get_branch_remote(r, ORIGIN, branch_name)
        r1 == CreateHead(r, branch_name, r.refs[ref])
    IN  Result(CheckoutForce(r1, branch_name), "ok", log \o <<"create_head", "checkout">>)

\* The branch does not exist locally but origin has one of the same name.
SetupFromRemote(r, branch_name, log) ==
    LET ref == get_branch_remote(r, ORIGIN, branch_name)
        r1 == CreateHead(r, branch_name, r.refs[ref])
        r2 == IF ~TrackingBranch(r1, branch_name)
              THEN SetTrackingBranch(r1, branch_name, ref)
              ELSE r1
        log2 == log \o <<"create_head">> \o
                (IF ~TrackingBranch(r1, branch_name)
                 THEN <<"set_tracking_branch">> ELSE <<>>)
    IN  IF ~TrackingBranch(r2, branch_name)
        THEN Result(r2, "raise", log2 \o <<"assert">>)
        ELSE Result(CheckoutForce(r2, branch_name), "ok", log2 \o <<"checkout">>)

\* Mutant: the new head is created from the official branch but not checked out.
SetupFromOfficialNoCheckout(r, branch_name, log) ==
    LET upstream == get_branch_remote(r, ORIGIN, OFFICIAL_GIT_BRANCH)
    IN  IF upstream = NoBranch
        THEN Result(r, "raise", log \o <<"create_head">>)
        ELSE Result(CreateHead(r, branch_name, r.refs[upstream]), "ok",
                    log \o <<"create_head">>)

\* Mutant: the new head is created at the current HEAD commit (create_head's
\* default) instead of at the official branch upstream.
SetupFromOfficialAtHead(r, branch_name, log) ==
    LET r1 == CreateHead(r, branch_name, r.heads[r.HEAD])
    IN  Result(CheckoutForce(r1, branch_name), "ok", log \o <<"create_head", "checkout">>)

\* Neither local nor on origin: branch from the official branch upstream,
\* untracked.
SetupFromOfficial(r, branch_name, log) ==
    LET upstream == get_branch_remote(r, ORIGIN, OFFICIAL_GIT_BRANCH)
    IN  IF upstream = NoBranch
        THEN Result(r, "raise", log \o <<"create_head">>)
        ELSE LET r1 == CreateHead(r, branch_name, r.refs[upstream])
             IN  IF TrackingBranch(r1, branch_name)
                 THEN Result(r1, "raise", log \o <<"create_head", "assert">>)
                 ELSE Result(CheckoutForce(r1, branch_name), "ok",
                             log \o <<"create_head", "checkout">>)

\* The reference f"origin/{branch_name}" that the tracked branch is reset to
UpstreamResetTarget(r, branch_name) == FullName(ORIGIN, branch_name)

\* Mutant: the existing branch is reset to origin's branch of the same name
\* whether or not it tracks anything.
SetupExistingAlwaysReset(r, branch_name, log) ==
    LET r1 == CheckoutForce(r, branch_name)
        target == UpstreamResetTarget(r1, branch_name)
    IN  IF target \notin RemoteRefNames(r1)
        THEN Result(r1, "ok", log \o <<"checkout">>)
        ELSE Result(ResetHard(r1, r1.refs[target]), "ok",
                    log \o <<"checkout", "reset_upstream">>)

\* Mutant: the reset to origin's branch is made before the branch is checked
\* out, so it moves whichever branch was checked out.
SetupExistingResetFirst(r, branch_name, log) ==
    LET target == UpstreamResetTarget(r, branch_name)
    IN  IF ~TrackingBranch(r, branch_name)
        THEN Result(CheckoutForce(r, branch_name), "ok", log \o <<"checkout">>)
        ELSE IF target \notin RemoteRefNames(r)
        THEN Result(r, "raise", log \o <<"reset_upstream">>)
        ELSE Result(CheckoutForce(ResetHard(r, r.refs[target]), branch_name), "ok",
                    log \o <<"reset_upstream", "checkout">>)

\* The branch exists locally.
SetupExisting(r, branch_name, log) ==
    LET r1 == CheckoutForce(r, branch_name)
        target == UpstreamResetTarget(r1, branch_name)
    IN  IF ~TrackingBranch(r1, branch_name)
        THEN Result(r1, "ok", log \o <<"checkout">>)
        ELSE IF target \notin RemoteRefNames(r1)
        THEN Result(r1, "raise", log \o <<"checkout", "reset_upstream">>)
        ELSE Result(ResetHard(r1, r1.refs[target]), "ok",
                    log \o <<"checkout", "reset_upstream">>)

setup_local_branch(r, branch_name, fetch) ==
    IF fetch.failed
    THEN IF IsProtocolError(fetch.stderr)
         THEN Result(r, "exit", <<"fetch">>)
         ELSE Result(r, "raise", <<"fetch">>)
    ELSE LET r1 == Fetch(r, fetch.refs)
             r2 == ResetHard(r1, r1.heads[r1.HEAD])
             log == <<"fetch", "reset">>
         IN  IF ~branch_exists_local(r2, branch_name)
             THEN IF branch_exists_remote(r2, ORIGIN, branch_name)
                  THEN SetupFromRemote(r2, branch_name, log)
                  ELSE SetupFromOfficial(r2, branch_name, log)
             ELSE SetupExisting(r2, branch_name, log)

-----------------------------------------------------------------------------
(* setup_to_call_git *)

\* env[name] = value
SetEnv(e, name, value) ==
    [n \in DOMAIN e \cup {name} |-> IF n = name THEN value ELSE e[n]]

\* if name not in env: env[name] = value
SetDefault(e, name, value) ==
    IF name \notin DOMAIN e THEN SetEnv(e, name, value) ELSE e

\* del env[name]
DelEnv(e, name) == [n \in DOMAIN e \ {name} |-> e[n]]

\* Mutant: the three variables are set whether or not they are there already.
setup_to_call_git_overwrite(e) ==
    LET e1 == SetEnv(e, GIT_SSH, PathJoin(SETTINGS_PROJECT_ROOT, <<"ssh_wrapper.sh">>))
        e2 == SetEnv(e1, TRANSLATION_REPOSITORY_DEPLOY_KEY,
                     SETTINGS_TRANSLATION_REPOSITORY_DEPLOY_KEY)
    IN  SetEnv(e2, PROJECT_ROOT, SETTINGS_PROJECT_ROOT)

setup_to_call_git(e) ==
    LET e1 == SetDefault(e, GIT_SSH, PathJoin(SETTINGS_PROJECT_ROOT, <<"ssh_wrapper.sh">>))
        e2 == SetDefault(e1, TRANSLATION_REPOSITORY_DEPLOY_KEY,
                         SETTINGS_TRANSLATION_REPOSITORY_DEPLOY_KEY)
    IN  SetDefault(e2, PROJECT_ROOT, SETTINGS_PROJECT_ROOT)

-----------------------------------------------------------------------------
(* Command Runner and Publisher *)

\* Exit codes of a git subprocess: success, the usual failures, death by signal
ReturnCodes == {0, 1, 2, 128, 255, -9, -15}

\* Mutant: the exit code is ignored.
run_git_unchecked(returncode) == "ok"

\* run_git: returns normally on exit code 0, raises otherwise
run_git(returncode) == IF returncode = 0 THEN "ok" ELSE "raise"

\* repo.untracked_files: in the working tree and not in the index
UntrackedFiles(r) == {p \in Paths : r.wt[p] # None /\ r.index[p] = None}

\* Mutant: every untracked file is added, whatever its path.
untracked_to_add_all(r, relpath) == UntrackedFiles(r)

\* [path for path in repo.untracked_files if path.startswith(relpath)]
untracked_to_add(r, relpath) == {p \in UntrackedFiles(r) : StartsWith(p, relpath)}

\* git add --force <paths>
GitAdd(r, paths) ==
    [r EXCEPT !.index = [p \in Paths |-> IF p \in paths THEN r.wt[p] ELSE r.index[p]]]

\* What git commit -a records: the index with every tracked path restaged
\* from the working tree
StagedAll(r) == [p \in Paths |-> IF r.index[p] # None THEN r.wt[p] ELSE None]

\* git commit -am exits non-zero when there is nothing to commit
NothingToCommit(r) == StagedAll(r) = Tree(r.heads[r.HEAD])

GitCommitAll(r) ==
    [r EXCEPT !.heads[r.HEAD] = Append(r.heads[r.HEAD], StagedAll(r)),
              !.index = StagedAll(r)]

\* Mutant: the push is made without -u and records no upstream.
GitPushNoUpstream(r) ==
    [r EXCEPT !.refs[FullName(ORIGIN, r.HEAD)] = r.heads[r.HEAD]]

\* git push -u origin <current branch>, accepted by the remote
GitPushUpstream(r) ==
    [r EXCEPT !.refs[FullName(ORIGIN, r.HEAD)] = r.heads[r.HEAD],
              !.tracking[r.HEAD] = FullName(ORIGIN, r.HEAD)]

push_current_branch(r, fault, log) ==
    IF run_git(IF fault = "push" THEN 1 ELSE 0) = "raise"
    THEN Result(r, "raise", log \o <<"push">>)
    ELSE Result(GitPushUpstream(r), "ok", log \o <<"push">>)

\* Mutant: the push is made whatever the push argument says.
commit_and_push_changes_always_push(r, relpath, push, fault) ==
    LET to_add == untracked_to_add(r, relpath)
        adds == to_add # {}
        log1 == IF adds THEN <<"add">> ELSE <<>>
        r1 == IF adds THEN GitAdd(r, to_add) ELSE r
        log2 == log1 \o <<"commit">>
        r2 == GitCommitAll(r1)
        log3 == log2 \o <<"status">>
    IN  IF adds /\ run_git(IF fault = "add" THEN 1 ELSE 0) = "raise"
        THEN Result(r, "raise", log1)
        ELSE IF run_git(IF fault = "commit" \/ NothingToCommit(r1) THEN 1 ELSE 0) = "raise"
        THEN Result(r1, "raise", log2)
        ELSE IF run_git(IF fault = "status" THEN 1 ELSE 0) = "raise"
        THEN Result(r2, "raise", log3)
        ELSE push_current_branch(r2, fault, log3)

\* fault names the external command, if any, that exits non-zero for a
\* reason outside the repository (a hook, the network, the remote).
commit_and_push_changes(r, relpath, push, fault) ==
    LET to_add == untracked_to_add(r, relpath)
        adds == to_add # {}
        log1 == IF adds THEN <<"add">> ELSE <<>>
        r1 == IF adds THEN GitAdd(r, to_add) ELSE r
        log2 == log1 \o <<"commit">>
        r2 == GitCommitAll(r1)
        log3 == log2 \o <<"status">>
    IN  IF adds /\ run_git(IF fault = "add" THEN 1 ELSE 0) = "raise"
        THEN Result(r, "raise", log1)
        ELSE IF run_git(IF fault = "commit" \/ NothingToCommit(r1) THEN 1 ELSE 0) = "raise"
        THEN Result(r1, "raise", log2)
        ELSE IF run_git(IF fault = "status" THEN 1 ELSE 0) = "raise"
        THEN Result(r2, "raise", log3)
        ELSE IF push
        THEN push_current_branch(r2, fault, log3)
        ELSE Result(r2, "ok", log3)

-----------------------------------------------------------------------------
(* State machine *)

Faults == {"none", "add", "commit", "status", "push"}

\* Commits the remote can advertise: those it had at the start and those a
\* remote-tracking reference already points at.
KnownUpstream(r) ==
    InitialCommits \cup {r.refs[f] : f \in RemoteRefNames(r)}

NothingFetched == [f \in RemoteRefs |-> NoCommit]

FailedFetches ==
    {[failed |-> TRUE, stderr |-> e, refs |-> NothingFetched] : e \in FetchErrors}

\* What origin.fetch() can meet: any advertisement of known commits, or a failure.
FetchInputs(r) ==
    {[failed |-> FALSE, stderr |-> <<>>, refs |-> f] :
        f \in [RemoteRefs -> KnownUpstream(r) \cup {NoCommit}]}
    \cup FailedFetches

\* A remote nobody else pushes to, and reachable: a fetch brings nothing new.
QuietFetchInputs ==
    {[failed |-> FALSE, stderr |-> <<>>, refs |-> NothingFetched]}

\* The commits made here that a head or a remote-tracking reference still
\* reaches.
History(c) == {SubSeq(c, 1, k) : k \in 1..Len(c)}
NewCommits(r) ==
    (UNION ({History(r.heads[n]) : n \in Names} \cup {History(r.refs[f]) : f \in RemoteRefs}))
        \ InitialCommits

Call(op, name, res, again) ==
    [op |-> op, name |-> name, out |-> res.out, log |-> res.log,
     was |-> HEAD, again |-> again]

Install(r) ==
    /\ heads' = r.heads
    /\ tracking' = r.tracking
    /\ HEAD' = r.HEAD
    /\ refs' = r.refs
    /\ index' = r.index
    /\ wt' = r.wt

Running == last.out # "exit"

\* The environment the process starts in: any of the variables may be set
Environments == UNION {[K -> PresetValues] : K \in SUBSET EnvNames}
NoEnvironment == [n \in {} |-> <<>>]

RepoInit ==
    /\ heads \in [Names -> InitialCommits \cup {NoCommit}]
    /\ heads[MAIN] # NoCommit
    /\ tracking \in [Names -> RemoteRefs \cup {NoBranch}]
    /\ \A n \in Names : heads[n] = NoCommit => tracking[n] = NoBranch
    /\ tracking[MAIN] \in {NoBranch, FullName(ORIGIN, MAIN)}
    /\ HEAD \in {n \in Names : heads[n] # NoCommit}
    /\ refs \in [RemoteRefs -> InitialCommits \cup {NoCommit}]
    /\ index = Tree(heads[HEAD])
    /\ wt = index
    /\ refs[FullName(ORIGIN, OFFICIAL_GIT_BRANCH)] # NoCommit
    /\ last = [op |-> "init", name |-> NoBranch, out |-> "ok", log |-> <<>>,
               was |-> HEAD, again |-> FALSE]

Init == RepoInit /\ env = NoEnvironment

\* The call repeats the previous one: same branch, the previous call
\* succeeded, and this fetch succeeds and changes no remote-tracking reference.
Repeats(branch_name, fetch) ==
    /\ last.op = "setup_local_branch"
    /\ last.out = "ok"
    /\ last.name = branch_name
    /\ ~fetch.failed
    /\ Fetch(Repo, fetch.refs).refs = refs

SetupLocalBranchWith(fetches) ==
    /\ Running
    /\ \E branch_name \in Names, fetch \in fetches :
        LET res == setup_local_branch(Repo, branch_name, fetch)
        IN  /\ Install(res.repo)
            /\ last' = Call("setup_local_branch", branch_name, res,
                            Repeats(branch_name, fetch))
    /\ UNCHANGED env

SetupLocalBranch == SetupLocalBranchWith(FetchInputs(Repo))

SetupLocalBranchQuiet == SetupLocalBranchWith(QuietFetchInputs)

KillBranch ==
    /\ Running
    /\ \E name \in Names :
        LET res == kill_branch(Repo, name)
        IN  /\ Install(res.repo)
            /\ last' = Call("kill_branch", name, res, FALSE)
    /\ UNCHANGED env

CommitAndPushChanges ==
    /\ Running
    /\ Cardinality(NewCommits(Repo)) < MaxNewCommits
    /\ \E relpath \in RelPaths, push \in BOOLEAN, fault \in Faults :
        LET res == commit_and_push_changes(Repo, relpath, push, fault)
        IN  /\ Install(res.repo)
            /\ last' = Call("commit_and_push_changes", NoBranch, res, FALSE)
    /\ UNCHANGED env

\* The calling workflow writes or removes a file in the working tree.
EditWorkingTree ==
    /\ Running
    /\ \E p \in Paths : \E v \in Content(p) \cup {None} :
        /\ wt' = [wt EXCEPT ![p] = v]
        /\ last' = [op |-> "edit", name |-> NoBranch, out |-> "ok", log |-> <<>>,
                    was |-> HEAD, again |-> FALSE]
    /\ UNCHANGED <<heads, tracking, HEAD, refs, index, env>>

EnvCall(op) ==
    [op |-> op, name |-> NoBranch, out |-> "ok", log |-> <<>>,
     was |-> HEAD, again |-> FALSE]

SetupToCallGit ==
    /\ Running
    /\ env' = setup_to_call_git(env)
    /\ last' = EnvCall("setup_to_call_git")
    /\ UNCHANGED <<heads, tracking, HEAD, refs, index, wt>>

\* Someone else in the process sets or unsets a variable.
ChangeEnviron ==
    /\ Running
    /\ \E name \in EnvNames :
          \/ \E value \in PresetValues : env' = SetEnv(env, name, value)
          \/ env' = DelEnv(env, name)
    /\ last' = EnvCall("environ")
    /\ UNCHANGED <<heads, tracking, HEAD, refs, index, wt>>

\* The reconciler and kill_branch against a remote that changes freely.
Next ==
    \/ SetupLocalBranch
    \/ KillBranch
    \/ EditWorkingTree

Spec == Init /\ [][Next]_vars

\* The publisher, with the reconciler, in a fresh clone of a remote that has
\* the official branch only and that only this repository pushes to.
PublishInit ==
    /\ Init
    /\ heads[B1] = NoCommit
    /\ refs[FullName(ORIGIN, B1)] = NoCommit
    /\ tracking[MAIN] = FullName(ORIGIN, MAIN)
    /\ refs[FullName(ORIGIN, MAIN)] = heads[MAIN]

PublishNext ==
    \/ CommitAndPushChanges
    \/ SetupLocalBranchQuiet
    \/ EditWorkingTree

SpecPublish == PublishInit /\ [][PublishNext]_vars

\* setup_to_call_git in a process that starts with any environment, in a
\* fresh clone that nothing else touches.
EnvInit ==
    /\ RepoInit
    /\ heads = [n \in Names |-> IF n = MAIN THEN SecondCommit ELSE NoCommit]
    /\ tracking = [n \in Names |-> IF n = MAIN THEN FullName(ORIGIN, MAIN) ELSE NoBranch]
    /\ refs = [f \in RemoteRefs |-> IF f = FullName(ORIGIN, MAIN) THEN SecondCommit ELSE NoCommit]
    /\ env \in Environments

EnvNext ==
    \/ SetupToCallGit
    \/ ChangeEnviron

SpecEnv == EnvInit /\ [][EnvNext]_vars

TypeOK ==
    /\ HEAD \in Names /\ heads[HEAD] # NoCommit
    /\ Cardinality(NewCommits(Repo)) <= MaxNewCommits
    /\ \A n \in Names : heads[n] = NoCommit => tracking[n] = NoBranch

-----------------------------------------------------------------------------
(* Properties of the reconciler *)

OriginRef(n) == FullName(ORIGIN, n)

\* The step is a call setup_local_branch(repo, n); it completed successfully.
SetupStep(n) == last'.op = "setup_local_branch" /\ last'.name = n
SetupOk(n) == SetupStep(n) /\ last'.out = "ok"

\* C1: for a local head N with a tracking relationship, after a successful
\* setup_local_branch(repo, N) HEAD is at the post-fetch tip of the branch N
\* tracks, whichever remote branch that is.
C1_HeadAtTrackedTip ==
    [][ \A n \in Names :
          (SetupOk(n) /\ heads[n] # NoCommit /\ tracking[n] # NoBranch)
              => /\ HEAD' = n
                 /\ heads'[HEAD'] = refs'[tracking[n]] ]_vars

\* C2: for N neither a local head nor a branch of origin (after the fetch), a
\* successful setup_local_branch(repo, N) leaves N a local head, checked out,
\* untracked, at the tip of origin's official branch.
C2_CreatedFromOfficial ==
    [][ \A n \in Names :
          (SetupOk(n) /\ heads[n] = NoCommit /\ refs'[OriginRef(n)] = NoCommit)
              => /\ heads'[n] # NoCommit
                 /\ HEAD' = n
                 /\ tracking'[n] = NoBranch
                 /\ heads'[n] = refs'[OriginRef(OFFICIAL_GIT_BRANCH)] ]_vars

C2_Witness ==
    /\ last.op = "setup_local_branch"
    /\ last.out = "ok"
    /\ last.log = <<"fetch", "reset", "create_head", "checkout">>
    /\ last.name # OFFICIAL_GIT_BRANCH
    /\ refs[OriginRef(last.name)] = NoCommit
    /\ HEAD = last.name
    /\ tracking[last.name] = NoBranch
    /\ heads[last.name] = refs[OriginRef(OFFICIAL_GIT_BRANCH)]
    /\ heads[last.name] # heads[last.was]

\* C3: for N a branch of origin (after the fetch) but not a local head, a
\* successful setup_local_branch(repo, N) leaves N a local head, checked out,
\* tracking origin/N, at the tip of origin/N.
C3_CreatedFromRemote ==
    [][ \A n \in Names :
          (SetupOk(n) /\ heads[n] = NoCommit /\ refs'[OriginRef(n)] # NoCommit)
              => /\ heads'[n] # NoCommit
                 /\ HEAD' = n
                 /\ tracking'[n] = OriginRef(n)
                 /\ heads'[n] = refs'[OriginRef(n)] ]_vars

C3_Witness ==
    /\ last.op = "setup_local_branch"
    /\ last.out = "ok"
    /\ last.log = <<"fetch", "reset", "create_head", "set_tracking_branch", "checkout">>
    /\ HEAD = last.name
    /\ tracking[last.name] = OriginRef(last.name)
    /\ heads[last.name] = refs[OriginRef(last.name)]
    /\ heads[last.name] # refs[OriginRef(OFFICIAL_GIT_BRANCH)]

\* C4: for a local head N without a tracking relationship,
\* setup_local_branch(repo, N) never moves N (nor gives it a tracking
\* relationship), and a call that completes leaves N checked out, whatever
\* origin has under the name N and whichever branch was checked out before.
C4_UntrackedLeftAlone ==
    [][ \A n \in Names :
          (SetupStep(n) /\ heads[n] # NoCommit /\ tracking[n] = NoBranch)
              => /\ heads'[n] = heads[n]
                 /\ tracking'[n] = NoBranch
                 /\ last'.out = "ok" => HEAD' = n ]_vars

C4_Witness ==
    /\ last.op = "setup_local_branch"
    /\ last.out = "ok"
    /\ last.log = <<"fetch", "reset", "checkout">>
    /\ last.was # last.name
    /\ HEAD = last.name
    /\ tracking[last.name] = NoBranch
    /\ refs[OriginRef(last.name)] # NoCommit
    /\ refs[OriginRef(last.name)] # heads[last.name]

\* C5: a successful setup_local_branch(repo, N) called again for the same N,
\* with nothing changed on the remote in between, succeeds again and leaves
\* the local heads, their tips, their tracking relationships and the
\* checked-out branch as the first call left them.
C5_Idempotent ==
    [][ last'.again
          => /\ last'.out = "ok"
             /\ heads' = heads
             /\ tracking' = tracking
             /\ HEAD' = HEAD ]_vars

C5_Witness ==
    /\ last.op = "setup_local_branch"
    /\ last.again
    /\ last.out = "ok"
    /\ HEAD = last.name

-----------------------------------------------------------------------------
(* Properties of kill_branch *)

KillStep(n) == last'.op = "kill_branch" /\ last'.name = n

C7_OfficialBranchStays == heads[OFFICIAL_GIT_BRANCH] # NoCommit

C7_Witness ==
    /\ last.op = "kill_branch"
    /\ last.name = OFFICIAL_GIT_BRANCH
    /\ last.log = <<"checkout", "delete_head">>
    /\ last.out = "raise"
    /\ last.was # OFFICIAL_GIT_BRANCH
    /\ heads[OFFICIAL_GIT_BRANCH] # NoCommit

-----------------------------------------------------------------------------
(* Failure of the fetch *)

\* C8: in every reachable repository, a fetch failing with a text that
\* contains "protocol error" makes setup_local_branch exit the process, any
\* other failing fetch makes it raise, and in both cases the call runs nothing
\* after the fetch and leaves the repository as it was.
C8_FetchFailure ==
    /\ \A n \in Names, f \in FailedFetches :
          LET res == setup_local_branch(Repo, n, f)
          IN  /\ res.repo = Repo
              /\ res.log = <<"fetch">>
              /\ res.out = IF f.stderr = <<"fatal", "protocol", "error", "bad", "line">>
                           THEN "exit" ELSE "raise"
    /\ (last.op = "setup_local_branch" /\ last.out = "exit") => last.log = <<"fetch">>

C8_Witness ==
    /\ last.op = "setup_local_branch"
    /\ last.out = "exit"
    /\ last.log = <<"fetch">>

-----------------------------------------------------------------------------
(* The hard reset *)

\* C10 as claimed: once the fetch has succeeded the hard reset runs before
\* any head creation or checkout, and after a successful call nothing
\* uncommitted is left: index and working tree are those of the HEAD commit.
C10_NoLocalChangeSurvives ==
    [][ \A n \in Names :
          SetupOk(n)
              => /\ SubSeq(last'.log, 1, 2) = <<"fetch", "reset">>
                 /\ index' = Tree(heads'[HEAD'])
                 /\ wt' = Tree(heads'[HEAD']) ]_vars

\* What does hold: the reset comes first, the index is that of the HEAD
\* commit, and the working tree differs from it only by untracked files that
\* were there before the call.
ResetDiscardsTrackedChanges ==
    [][ \A n \in Names :
          SetupOk(n)
              => /\ SubSeq(last'.log, 1, 2) = <<"fetch", "reset">>
                 /\ index' = Tree(heads'[HEAD'])
                 /\ \A p \in Paths :
                       wt'[p] # index'[p] => (index[p] = None /\ wt'[p] = wt[p]) ]_vars

-----------------------------------------------------------------------------
(* Properties of the publisher *)

\* C9: in every reachable repository, commit_and_push_changes adds the
\* untracked files whose path starts with relpath and no other: an untracked
\* file outside relpath is neither staged nor committed and is still untracked
\* after the call, however the call ends.  With a/x and b/y untracked and
\* relpath a/, a/x is added and b/y stays untracked.
C9_OnlyPrefixStaged ==
    /\ \A relpath \in RelPaths, push \in BOOLEAN, fault \in Faults :
          LET res == commit_and_push_changes(Repo, relpath, push, fault)
              tip == res.repo.heads[res.repo.HEAD]
          IN  \A p \in UntrackedFiles(Repo) :
                IF StartsWith(p, relpath)
                THEN fault # "add" => res.repo.index[p] = wt[p]
                ELSE /\ p \in UntrackedFiles(res.repo)
                     /\ res.repo.wt[p] = wt[p]
                     /\ tip # heads[HEAD] => Tree(tip)[p] = None
    /\ UntrackedFiles(Repo) = {PathAX, PathBY}
          => LET res == commit_and_push_changes(Repo, <<"a", "/">>, FALSE, "none")
             IN  /\ res.out = "ok"
                 /\ UntrackedFiles(res.repo) = {PathBY}
                 /\ Tree(res.repo.heads[res.repo.HEAD])[PathAX] = wt[PathAX]
                 /\ Tree(res.repo.heads[res.repo.HEAD])[PathBY] = None

C9_Witness ==
    /\ last.op = "commit_and_push_changes"
    /\ last.out = "ok"
    /\ last.log = <<"add", "commit", "status">>
    /\ UntrackedFiles(Repo) = {PathBY}
    /\ Tree(heads[HEAD])[PathAX] # None
    /\ Tree(heads[HEAD])[PathBY] = None

-----------------------------------------------------------------------------
(* Branch lookup *)

\* C11 as claimed: in every reachable repository, for the repository and for
\* the remote alike, get_branch(target, name) returns the branch when
\* branch_exists(target, name) and returns None when not; a missing branch is
\* never an error.
C11_MissingIsNone ==
    \A target \in Targets, name \in Names :
        LET found == get_branch(Repo, target, name)
        IN  /\ found.out = "ok"
            /\ branch_exists(Repo, target, name) <=> found.branch # NoBranch

\* What does hold: the lookup on the remote returns None for a missing branch,
\* the lookup in the repository raises for one.
LookupOfMissingBranch ==
    \A name \in Names :
        /\ get_branch(Repo, ORIGIN, name).out = "ok"
        /\ branch_exists(Repo, ORIGIN, name)
              <=> get_branch(Repo, ORIGIN, name).branch = FullName(ORIGIN, name)
        /\ ~branch_exists(Repo, ORIGIN, name)
              <=> get_branch(Repo, ORIGIN, name).branch = NoBranch
        /\ branch_exists(Repo, REPO, name)
              <=> get_branch(Repo, REPO, name) = Lookup("ok", name)
        /\ ~branch_exists(Repo, REPO, name)
              <=> get_branch(Repo, REPO, name).out = "raise"

-----------------------------------------------------------------------------
(* The command runner *)

\* C12: run_git returns normally exactly when the command exits with code 0
\* and raises for every other code; and in every reachable repository, when
\* a command run by commit_and_push_changes exits non-zero (for an outside
\* reason or because there is nothing to commit) the call raises with that
\* command as its last step.
C12_RaisesOnNonZero ==
    /\ \A returncode \in ReturnCodes :
          /\ returncode = 0 <=> run_git(returncode) = "ok"
          /\ returncode # 0 <=> run_git(returncode) = "raise"
    /\ \A relpath \in RelPaths, push \in BOOLEAN, fault \in Faults :
          LET res == commit_and_push_changes(Repo, relpath, push, fault)
              steps == {res.log[i] : i \in 1..Len(res.log)}
              to_add == untracked_to_add(Repo, relpath)
              nothing == /\ fault = "add" => to_add = {}
                         /\ NothingToCommit(GitAdd(Repo, to_add))
          IN  /\ fault \in steps
                    => (res.out = "raise" /\ res.log[Len(res.log)] = fault)
              /\ nothing
                    => (res.out = "raise" /\ res.log[Len(res.log)] = "commit")
              /\ res.out = "raise"
                    => (fault = res.log[Len(res.log)] \/ nothing)

C12_Witness ==
    /\ last.op = "commit_and_push_changes"
    /\ last.out = "raise"
    /\ last.log = <<"add", "commit">>
    /\ UntrackedFiles(Repo) = {}
    /\ index # Tree(heads[HEAD])

-----------------------------------------------------------------------------
(* The process environment *)

\* C13: after setup_to_call_git the three variables GIT_SSH,
\* TRANSLATION_REPOSITORY_DEPLOY_KEY and PROJECT_ROOT are set, every variable
\* that was set before the call has the value it had, no other variable has
\* appeared or gone, and calling it again would change nothing.
C13_SetsOnlyMissing ==
    [][ last'.op = "setup_to_call_git"
          => /\ {GIT_SSH, TRANSLATION_REPOSITORY_DEPLOY_KEY, PROJECT_ROOT} \subseteq DOMAIN env'
             /\ \A n \in DOMAIN env : env'[n] = env[n]
             /\ DOMAIN env' = DOMAIN env
                    \cup {GIT_SSH, TRANSLATION_REPOSITORY_DEPLOY_KEY, PROJECT_ROOT}
             /\ setup_to_call_git(env') = env' ]_vars

C13_Witness ==
    /\ last.op = "setup_to_call_git"
    /\ DOMAIN env = {GIT_SSH, TRANSLATION_REPOSITORY_DEPLOY_KEY, PROJECT_ROOT}
    /\ env[GIT_SSH] = <<>>
    /\ env[TRANSLATION_REPOSITORY_DEPLOY_KEY] = <<"/", "preset">>
    /\ env[PROJECT_ROOT] = <<"/", "srv", "/", "app">>

-----------------------------------------------------------------------------
(* The steps of the publisher *)

\* C14: in every reachable repository and for every relpath, push flag and
\* failing command, commit_and_push_changes runs a prefix of: add (only when
\* an untracked file's path starts with relpath), commit, status, push (only
\* when push is true).  A call that succeeds has run them all and has put
\* exactly one new commit on the current branch, moving no other head; a call
\* that fails stopped at the command that failed; push runs exactly when push
\* is true and add, commit and status succeeded.
C14_StepOrder ==
    \A relpath \in RelPaths, push \in BOOLEAN, fault \in Faults :
        LET res == commit_and_push_changes(Repo, relpath, push, fault)
            matching == {p \in Paths : wt[p] # None /\ index[p] = None
                                          /\ StartsWith(p, relpath)}
            order == (IF matching # {} THEN <<"add">> ELSE <<>>)
                        \o <<"commit", "status">>
                        \o (IF push THEN <<"push">> ELSE <<>>)
            ran == Len(res.log)
            tip == res.repo.heads[res.repo.HEAD]
            nothing == NothingToCommit(GitAdd(Repo, matching))
            failed_before_push ==
                \/ fault = "add" /\ matching # {}
                \/ fault \in {"commit", "status"}
                \/ nothing
        IN  /\ ran <= Len(order)
            /\ res.log = SubSeq(order, 1, ran)
            /\ res.out = "ok"
                  => /\ res.log = order
                     /\ res.repo.HEAD = HEAD
                     /\ tip # heads[HEAD]
                     /\ Parent(tip) = heads[HEAD]
                     /\ \A n \in Names \ {HEAD} : res.repo.heads[n] = heads[n]
            /\ res.out = "raise"
                  => (res.log[ran] = fault \/ (nothing /\ res.log[ran] = "commit"))
            /\ (ran > 0 /\ res.log[ran] = "push") <=> (push /\ ~failed_before_push)

C14_Witness ==
    /\ last.op = "commit_and_push_changes"
    /\ last.out = "ok"
    /\ last.log = <<"add", "commit", "status", "push">>
    /\ heads[HEAD] \notin InitialCommits
    /\ Parent(heads[HEAD]) \in InitialCommits
    /\ refs[OriginRef(HEAD)] = heads[HEAD]

-----------------------------------------------------------------------------
(* Publishing, then reconciling *)

PublishStep ==
    /\ last'.op = "commit_and_push_changes"
    /\ last'.out = "ok"
    /\ last'.log[Len(last'.log)] = "push"

\* C15: with a remote that nobody else pushes to, (a) a successful
\* commit_and_push_changes with push = true leaves the current branch N, also
\* one that setup_local_branch created untracked, tracking origin/N with
\* origin/N at the new commit; (b) a successful setup_local_branch(repo, N) on
\* a branch so published leaves N checked out at the pushed commit; (c) a
\* successful setup_local_branch(repo, N) on a tracked N leaves N at origin/N,
\* so commits made on N and not pushed are gone from it.
C15_PublishThenReconcile ==
    [][ /\ PublishStep
            => /\ HEAD' = HEAD
               /\ heads'[HEAD] # heads[HEAD]
               /\ tracking'[HEAD] = OriginRef(HEAD)
               /\ refs'[OriginRef(HEAD)] = heads'[HEAD]
        /\ \A n \in Names :
              /\ (SetupOk(n) /\ heads[n] # NoCommit /\ tracking[n] = OriginRef(n)
                             /\ refs[OriginRef(n)] = heads[n])
                    => (HEAD' = n /\ heads'[n] = heads[n])
              /\ (SetupOk(n) /\ heads[n] # NoCommit /\ tracking[n] # NoBranch)
                    => /\ HEAD' = n
                       /\ heads'[n] = refs[OriginRef(n)]
                       /\ \A c \in History(heads[n]) \ History(refs[OriginRef(n)]) :
                             c \notin History(heads'[n]) ]_vars

\* b1, which only setup_local_branch can have created, and untracked, has been
\* committed to and pushed, and then reconciled: it is at the pushed commit.
C15_Witness ==
    /\ last.op = "setup_local_branch"
    /\ last.name = B1
    /\ last.out = "ok"
    /\ last.log = <<"fetch", "reset", "checkout", "reset_upstream">>
    /\ HEAD = B1
    /\ tracking[B1] = OriginRef(B1)
    /\ heads[B1] \notin InitialCommits
    /\ refs[OriginRef(B1)] = heads[B1]

-----------------------------------------------------------------------------
(* The other local heads *)

\* C16: a call setup_local_branch(repo, N), however it ends, removes no local
\* head, creates no head other than N, and leaves the tip and the tracking
\* relationship of every local head other than N as they were; and a local
\* head disappears only in a call kill_branch of that head.
C16_OtherHeadsUntouched ==
    [][ /\ \A n \in Names :
              SetupStep(n)
                  => \A m \in Names :
                        /\ heads[m] # NoCommit => heads'[m] # NoCommit
                        /\ m # n => (heads'[m] = heads[m] /\ tracking'[m] = tracking[m])
        /\ \A m \in Names :
              (heads[m] # NoCommit /\ heads'[m] = NoCommit) => KillStep(m) ]_vars

\* N was checked out in place of another branch and reset to origin/N; the
\* other branch, tracked and at a different commit, is where it was.
C16_Witness ==
    /\ last.op = "setup_local_branch"
    /\ last.out = "ok"
    /\ last.log = <<"fetch", "reset", "checkout", "reset_upstream">>
    /\ last.was # last.name
    /\ heads[last.was] # NoCommit
    /\ tracking[last.was] # NoBranch
    /\ heads[last.was] # heads[last.name]
    /\ refs[OriginRef(last.was)] # heads[last.was]

-----------------------------------------------------------------------------
(* The assertions of setup_local_branch *)

\* C17: no call of setup_local_branch ends in a failed assertion: whenever it
\* has created the head N, the call succeeds, and N has a tracking
\* relationship if it was created from origin/N and none if it was created
\* from the official branch of origin, although that is a remote-tracking
\* reference too.
C17_AssertionsHold ==
    [][ \A n \in Names :
          SetupStep(n)
              => LET steps == {last'.log[i] : i \in 1..Len(last'.log)}
                 IN  /\ "assert" \notin steps
                     /\ "create_head" \in steps
                           => /\ last'.out = "ok"
                              /\ "set_tracking_branch" \in steps
                                    <=> refs'[OriginRef(n)] # NoCommit
                              /\ TrackingBranch([tracking |-> tracking'], n)
                                    <=> refs'[OriginRef(n)] # NoCommit ]_vars

\* A head created at the commit of origin's official branch, which the local
\* official branch tracks, and that passed the assertion: it tracks nothing.
C17_Witness ==
    /\ last.op = "setup_local_branch"
    /\ last.out = "ok"
    /\ last.log[3] = "create_head"
    /\ last.log[4] = "checkout"
    /\ heads[last.name] = refs[OriginRef(OFFICIAL_GIT_BRANCH)]
    /\ tracking[OFFICIAL_GIT_BRANCH] = OriginRef(OFFICIAL_GIT_BRANCH)
    /\ heads[OFFICIAL_GIT_BRANCH] = refs[OriginRef(OFFICIAL_GIT_BRANCH)]
    /\ ~TrackingBranch(Repo, last.name)

====
